---- MODULE Spec2Model ----
(***************************************************************************)
(* Service-report editor (src/layout.tsx): storage-key derivation, photo   *)
(* pagination, and the save/load state machine over localStorage.          *)
(*                                                                         *)
(* Strings that the code inspects character by character (vessel names,    *)
(* storage keys) are sequences of one-character strings.  An ISO calendar  *)
(* date "YYYY-MM-DD" is the triple <<y, m, d>>; the empty string of a date *)
(* input is <<>>.                                                          *)
(***************************************************************************)
EXTENDS Integers, Sequences, FiniteSets, TLC

VARIABLES
    \* ---- ServiceReportApp component state (src/layout.tsx:87-179)
    form,             \* useState form record
    logoTouched,      \* useState logoTouched
    photos,           \* useState photos, when it holds an array
    photosIsArray,    \* FALSE when setPhotos was given a value that is no array
    storageKey,       \* useMemo storageKey (deps: vessel, jobDateEnd, jobDateStart)
    saveMsg,          \* useState saveMsg
    savedList,        \* useState savedList
    selectedSavedKey, \* useState selectedSavedKey
    \* ---- environment of the component
    store,            \* localStorage: key -> raw stored value
    writtenKeys,      \* history: keys whose current value saveToStorage wrote
    timers,           \* pending setTimeout(() => setSaveMsg(''), 3000) callbacks
    readers,          \* FileReaders started by onFileChange and not yet loaded
    nextId,           \* number of photo ids handed out so far
    today,            \* current UTC calendar date of the machine
    tz,               \* local time-zone offset of the machine, in hours
    phase,            \* "constructed" | "mounted" | "crashed"
    mounts,           \* number of page loads so far
    \* ---- harness applying paginatePhotos to drawn inputs
    pgArr, pgOut,
    \* ---- harness applying computeStorageKey to drawn inputs
    ckVessel, ckISO, ckTz, ckOut

appVars == <<form, logoTouched, photos, photosIsArray, storageKey, saveMsg,
             savedList, selectedSavedKey, store, writtenKeys, timers, readers,
             nextId, today, tz, phase, mounts>>
pgVars == <<pgArr, pgOut>>
ckVars == <<ckVessel, ckISO, ckTz, ckOut>>
vars == <<appVars, pgVars, ckVars>>

-----------------------------------------------------------------------------
(* Characters and strings *)

Lower == <<"a","b","c","d","e","f","g","h","i","j","k","l","m",
           "n","o","p","q","r","s","t","u","v","w","x","y","z">>
UpperCase == <<"A","B","C","D","E","F","G","H","I","J","K","L","M",
               "N","O","P","Q","R","S","T","U","V","W","X","Y","Z">>
Digits == <<"0","1","2","3","4","5","6","7","8","9">>

Range(s) == { s[i] : i \in DOMAIN s }
IndexOf(s, c) == CHOOSE i \in DOMAIN s : s[i] = c

\* the character class [A-Za-z0-9] of the regular expression
IsAlnum(c) == c \in Range(Lower) \cup Range(UpperCase) \cup Range(Digits)

\* String.prototype.toUpperCase on one character
ToUpperChar(c) == IF c \in Range(Lower) THEN UpperCase[IndexOf(Lower, c)] ELSE c

\* UTF-16 code unit order of the characters a storage key can hold
CharCode(c) ==
    IF c \in Range(Digits) THEN 48 + IndexOf(Digits, c) - 1
    ELSE IF c \in Range(UpperCase) THEN 65 + IndexOf(UpperCase, c) - 1
    ELSE IF c \in Range(Lower) THEN 97 + IndexOf(Lower, c) - 1
    ELSE 32

\* s.replace(/[^A-Za-z0-9]/g, '')
RECURSIVE StripNonAlnum(_)
StripNonAlnum(s) ==
    IF s = <<>> THEN <<>>
    ELSE (IF IsAlnum(Head(s)) THEN <<Head(s)>> ELSE <<>>) \o StripNonAlnum(Tail(s))

\* s.toUpperCase()
ToUpperCase(s) == [i \in DOMAIN s |-> ToUpperChar(s[i])]

\* String(n) for an integer n >= 0
RECURSIVE NumToString(_)
NumToString(n) ==
    IF n < 10 THEN <<Digits[n + 1]>>
    ELSE NumToString(n \div 10) \o <<Digits[(n % 10) + 1]>>

\* s.padStart(2, '0')
PadStart2(s) == IF Len(s) >= 2 THEN s ELSE [i \in 1..(2 - Len(s)) |-> "0"] \o s

\* s.slice(-2)
SliceLast2(s) == IF Len(s) <= 2 THEN s ELSE SubSeq(s, Len(s) - 1, Len(s))

\* arr.slice(a, b) for 0 <= a, 0 <= b (zero-based, end exclusive)
Slice(arr, a, b) ==
    LET lo == IF a > Len(arr) THEN Len(arr) ELSE a
        hi == IF b > Len(arr) THEN Len(arr) ELSE b
    IN  IF hi <= lo THEN <<>> ELSE SubSeq(arr, lo + 1, hi)

-----------------------------------------------------------------------------
(* Calendar dates *)

IsLeap(y) == (y % 4 = 0 /\ y % 100 # 0) \/ y % 400 = 0

DaysInMonth(y, m) ==
    IF m = 2 THEN (IF IsLeap(y) THEN 29 ELSE 28)
    ELSE IF m \in {4, 6, 9, 11} THEN 30 ELSE 31

PrevDay(dt) ==
    IF dt[3] > 1 THEN <<dt[1], dt[2], dt[3] - 1>>
    ELSE IF dt[2] > 1 THEN <<dt[1], dt[2] - 1, DaysInMonth(dt[1], dt[2] - 1)>>
    ELSE <<dt[1] - 1, 12, 31>>

NextDay(dt) ==
    IF dt[3] < DaysInMonth(dt[1], dt[2]) THEN <<dt[1], dt[2], dt[3] + 1>>
    ELSE IF dt[2] < 12 THEN <<dt[1], dt[2] + 1, 1>>
    ELSE <<dt[1] + 1, 1, 1>>

\* new Date("YYYY-MM-DD") is midnight UTC of that date; getDate(), getMonth()
\* and getFullYear() read the local calendar date of that instant: with a
\* negative offset the local clock still shows the previous day.
LocalDateOf(iso, offset) == IF offset < 0 THEN PrevDay(iso) ELSE iso

-----------------------------------------------------------------------------
(* computeStorageKey, src/layout.tsx:58-65 *)

VESSEL == <<"V","E","S","S","E","L">>

\* line 59: (vessel || 'VESSEL').replace(/[^A-Za-z0-9]/g, '').toUpperCase()
VesselKey(vessel) ==
    ToUpperCase(StripNonAlnum(IF vessel # <<>> THEN vessel ELSE VESSEL))

\* lines 60-63: dd, mm, yy of new Date(baseISO) on a machine at `offset`
DatePart(baseISO, offset) ==
    LET dt == LocalDateOf(baseISO, offset)
        dd == PadStart2(NumToString(dt[3]))
        mm == PadStart2(NumToString(dt[2]))
        yy == SliceLast2(NumToString(dt[1]))
    IN  dd \o mm \o yy

computeStorageKey(vessel, baseISO, offset) ==
    VesselKey(vessel) \o DatePart(baseISO, offset)

-----------------------------------------------------------------------------
(* paginatePhotos, src/layout.tsx:67-73 *)

\* line 71: for (let i = 0; i < rest.length; i += 4) groups.push(rest.slice(i, i + 4))
RECURSIVE GroupLoop(_, _, _)
GroupLoop(rest, i, groups) ==
    IF i < Len(rest)
    THEN GroupLoop(rest, i + 4, Append(groups, Slice(rest, i, i + 4)))
    ELSE groups

\* paginatePhotos with the rest starting one photo late
paginatePhotos_SkipsThird(arr) ==
    [firstTwo |-> Slice(arr, 0, 2),
     groups |-> GroupLoop(Slice(arr, 3, Len(arr)), 0, <<>>)]

\* paginatePhotos with the last, partial group left out
paginatePhotos_DropsPartial(arr) ==
    LET rest == Slice(arr, 2, Len(arr))
    IN  [firstTwo |-> Slice(arr, 0, 2),
         groups |-> GroupLoop(Slice(rest, 0, 4 * (Len(rest) \div 4)), 0, <<>>)]

paginatePhotos(arr) ==
    LET firstTwo == Slice(arr, 0, 2)
        rest == Slice(arr, 2, Len(arr))
    IN  [firstTwo |-> firstTwo, groups |-> GroupLoop(rest, 0, <<>>)]

-----------------------------------------------------------------------------
(* Company profiles and the form, src/layout.tsx:32-49, 87-105 *)

CompanyIds == {"IMI", "ITI"}

\* COMPANIES[id].logoUrl
CompanyLogoUrl(id) == IF id = "IMI" THEN "logo-small.png" ELSE "ITI-CORPORATION-LOGO.png"

\* The fields of the form record that the claims read.  referenceNo, customer,
\* location and the other free-text fields are written by the same handleChange
\* and carried by the same spreads as `vessel`; `recommendations` stands for the
\* content-editable ones and has its own line in loadFromStorage.
FormFields == {"companyId", "vessel", "jobDateStart", "jobDateEnd",
               "recommendations", "logoUrl"}

\* useState initial value, lines 87-105
InitialForm ==
    [companyId |-> "IMI", vessel |-> <<>>, jobDateStart |-> <<>>,
     jobDateEnd |-> <<>>, recommendations |-> "",
     logoUrl |-> CompanyLogoUrl("IMI")]

\* line 173: form.jobDateEnd || form.jobDateStart || new Date().toISOString().slice(0, 10)
BaseISO(f, day) ==
    IF f.jobDateEnd # <<>> THEN f.jobDateEnd
    ELSE IF f.jobDateStart # <<>> THEN f.jobDateStart
    ELSE day

\* lines 172-175: useMemo recomputes only when one of its dependencies
\* [form.vessel, form.jobDateEnd, form.jobDateStart] changed since the last render
StorageKeyMemo(prev, next, key, day, offset) ==
    IF \/ next.vessel # prev.vessel
       \/ next.jobDateEnd # prev.jobDateEnd
       \/ next.jobDateStart # prev.jobDateStart
    THEN computeStorageKey(next.vessel, BaseISO(next, day), offset)
    ELSE key

\* the effect without its logoTouched test
LogoEffect_IgnoresTouched(f, touched) ==
    IF CompanyLogoUrl(f.companyId) # ""
    THEN [f EXCEPT !.logoUrl = CompanyLogoUrl(f.companyId)]
    ELSE f

\* line 114, the body of the effect with dependency [form.companyId]:
\* if (!logoTouched && company.logoUrl) setForm((f) => ({ ...f, logoUrl: company.logoUrl }))
LogoEffect(f, touched) ==
    IF ~touched /\ CompanyLogoUrl(f.companyId) # ""
    THEN [f EXCEPT !.logoUrl = CompanyLogoUrl(f.companyId)]
    ELSE f

-----------------------------------------------------------------------------
(* localStorage values and JSON *)

Undefined == "undefined"

\* Raw stored strings, by what JSON.parse makes of them.
RawEmpty == [kind |-> "empty"]       \* the empty string
RawText == [kind |-> "text"]         \* not JSON: JSON.parse throws
RawNull == [kind |-> "null"]         \* the JSON text null
RawNumber == [kind |-> "number"]     \* a JSON number, string or boolean
\* A JSON object: formKind is "absent" or "object" (then `form` maps the fields
\* present to their values); photosKind is "absent", "array" (then `photos`
\* is the list) or "other" (a truthy value that is no array, e.g. "abc").
RawObject(formKind, f, photosKind, ps) ==
    [kind |-> "object", formKind |-> formKind, form |-> f,
     photosKind |-> photosKind, photos |-> ps]

\* JSON.stringify({ form, photos }), line 204-205
JSONStringify(f, ps) == RawObject("object", f, "array", ps)

\* localStorage.getItem(key): the value, or null
GetItem(s, k) == IF k \in DOMAIN s THEN s[k] ELSE RawEmpty

\* `!raw` of lines 188 and 221: null and the empty string
IsFalsyRaw(raw) == raw.kind = "empty"

\* JSON.parse(raw) throws
ParseThrows(raw) == raw.kind = "text"

\* localStorage.setItem(key, value) on the store
SetItem(s, k, raw) == [x \in DOMAIN s \cup {k} |-> IF x = k THEN raw ELSE s[x]]

\* Space a stored value takes: the embedded images dominate.
RawSize(raw) == IF raw.kind = "object" /\ raw.photosKind = "array"
                THEN 1 + Len(raw.photos) ELSE 1

RECURSIVE StoreSize(_)
StoreSize(s) ==
    IF DOMAIN s = {} THEN 0
    ELSE LET k == CHOOSE x \in DOMAIN s : TRUE
         IN  RawSize(s[k]) + StoreSize([x \in DOMAIN s \ {k} |-> s[x]])

-----------------------------------------------------------------------------
(* Bounds of the model *)

MaxPhotos == 1      \* photo ids handed out over a run
MaxTimers == 1      \* clear-message timers pending at once
MaxTicks == 1       \* midnights (UTC) passed over a run
MaxMounts == 2      \* page loads over a run
Quota == 3          \* space of the store, in units of RawSize
MaxPhotoCount == 11 \* longest list given to paginatePhotos by its harness
MaxUploads == 4     \* files selected over a run of the photo specifications

FirstDay == <<2024, 12, 31>>

RECURSIVE DayAfter(_, _)
DayAfter(day, n) == IF n = 0 THEN day ELSE DayAfter(NextDay(day), n - 1)

TzOffsets == {-5, 0, 8}
Files == {"f1"}
Captions == {"", "c"}
CustomLogoUrl == "custom.png"
VesselInputs == {<<>>, <<"a">>}
DateInputs == {<<>>, <<2025, 1, 1>>, <<2024, 12, 31>>}
TextInputs == {"", "r"}

-----------------------------------------------------------------------------
(* Status messages, lines 206, 213, 222, 228, 231 *)

NoMsg == [text |-> "", key |-> <<>>]
SavedMsg(k) == [text |-> "Saved as", key |-> k]
SaveFailedMsg == [text |-> "Save failed (data too large).", key |-> <<>>]
NoSavedDataMsg == [text |-> "No saved data for this key", key |-> <<>>]
LoadedMsg(k) == [text |-> "Loaded", key |-> k]
LoadFailedMsg == [text |-> "Load failed.", key |-> <<>>]

-----------------------------------------------------------------------------
(* The saved-reports list, lines 182-200 *)

\* a < b on JavaScript strings
RECURSIVE StrLess(_, _)
StrLess(a, b) ==
    IF b = <<>> THEN FALSE
    ELSE IF a = <<>> THEN TRUE
    ELSE IF CharCode(Head(a)) # CharCode(Head(b))
         THEN CharCode(Head(a)) < CharCode(Head(b))
    ELSE StrLess(Tail(a), Tail(b))

\* line 191-193: the item pushed for a key, for the values that are listed
Listable(raw) == ~IsFalsyRaw(raw) /\ ~ParseThrows(raw) /\ raw.kind = "object"

\* line 192: Array.isArray(data?.photos) && data.photos[0]?.src ? data.photos[0].src : undefined
PreviewOf(raw) ==
    IF raw.kind = "object" /\ raw.photosKind = "array" /\ raw.photos # <<>>
       /\ raw.photos[1].src # ""
    THEN raw.photos[1].src ELSE Undefined

ListItem(k, preview) == [key |-> k, label |-> k, preview |-> preview]

\* line 196: items.sort((a, b) => (a.key < b.key ? 1 : -1)); the keys of a store
\* are distinct, so whatever order localStorage.key(i) enumerates them in, the
\* sorted array is the one with the keys descending.
RECURSIVE SortItems(_)
SortItems(items) ==
    IF items = {} THEN <<>>
    ELSE LET top == CHOOSE a \in items : \A b \in items \ {a} : ~(a.key = b.key) /\ ~StrLess(a.key, b.key)
         IN  <<top>> \o SortItems(items \ {top})

\* the list when one try/catch wraps the whole loop: a value that does not
\* parse ends the enumeration
BuildSavedList_OneCatch(s) ==
    IF \E x \in DOMAIN s : ~IsFalsyRaw(s[x]) /\ ParseThrows(s[x]) THEN <<>>
    ELSE SortItems({ ListItem(k, PreviewOf(s[k])) : k \in { x \in DOMAIN s : Listable(s[x]) } })

\* lines 184-196
BuildSavedList(s) ==
    SortItems({ ListItem(k, PreviewOf(s[k])) : k \in { x \in DOMAIN s : Listable(s[x]) } })

-----------------------------------------------------------------------------
(* loadFromStorage's merge, line 226 *)

\* { ...prev, ...data.form,
\*   recommendations: data.form.recommendations ?? prev.recommendations ?? '' }
MergeLoaded(prev, loaded) ==
    LET spread == [k \in DOMAIN prev \cup DOMAIN loaded |->
                     IF k \in DOMAIN loaded THEN loaded[k] ELSE prev[k]]
        rec == IF "recommendations" \in DOMAIN loaded THEN loaded["recommendations"]
               ELSE IF "recommendations" \in DOMAIN prev THEN prev["recommendations"]
               ELSE ""
    IN  [k \in DOMAIN spread \cup {"recommendations"} |->
           IF k = "recommendations" THEN rec ELSE spread[k]]

-----------------------------------------------------------------------------
(* Values found in localStorage when the page is first opened *)

EmptyForm == [k \in {} |-> ""]
EmptyStore == [k \in {} |-> RawEmpty]

OldPhoto == [id |-> 0, src |-> "f0", caption |-> "old"]

\* Written by something other than this version of saveToStorage: text that
\* is no JSON, JSON that is no record, records of an older schema.
CorruptValues ==
    { RawEmpty, RawText, RawNull, RawNumber,
      RawObject("absent", EmptyForm, "other", <<>>) }
OlderRecords ==
    { RawObject("object", EmptyForm, "absent", <<>>),
      RawObject("object", [companyId |-> "ITI"], "array", <<OldPhoto>>),
      RawObject("object", [companyId |-> "ITI", logoUrl |-> CustomLogoUrl],
                "absent", <<>>) }
ForeignValues == CorruptValues \cup OlderRecords

\* the key the freshly opened page addresses, and the key of vessel "a"
FirstKey(offset) == computeStorageKey(<<>>, FirstDay, offset)
OtherKey(offset) == computeStorageKey(<<"a">>, FirstDay, offset)

\* nothing, or one foreign value under the key the page addresses
InitStores ==
    [offset \in TzOffsets |->
       {EmptyStore} \cup { [k \in {FirstKey(offset)} |-> v] : v \in ForeignValues }]

\* a corrupt value under one key, with or without an older record under another
MixedStores ==
    [offset \in TzOffsets |->
       { [k \in {FirstKey(offset)} |-> v] : v \in CorruptValues } \cup
       { [k \in {FirstKey(offset), OtherKey(offset)} |->
            IF k = FirstKey(offset) THEN v ELSE w] :
            v \in CorruptValues, w \in ForeignValues }]

OnlyEmptyStore == [offset \in TzOffsets |-> {EmptyStore}]

-----------------------------------------------------------------------------
(* The harnesses of the two pure functions *)

PgIdle == [done |-> FALSE, firstTwo |-> <<>>, groups |-> <<>>]

\* the photos n..n+len-1 of a roll of MaxPhotoCount + 1 photos, in order
PgInputs ==
    { [i \in 1..len |-> ((i + r - 1) % (MaxPhotoCount + 1)) + 1] :
        len \in 0..MaxPhotoCount, r \in 0..MaxPhotoCount }

CkIdle == [done |-> FALSE, key |-> <<>>]

SeaWolf == <<"S","e","a"," ","W","o","l","f">>
CkChars == {"a", "Z", "7", " ", "-"}
CkVessels ==
    {<<>>, SeaWolf} \cup { <<c>> : c \in CkChars } \cup { <<c, d>> : c, d \in CkChars }
CkDates == { <<2025, 9, 16>>, <<2025, 1, 5>>, <<2025, 1, 1>>, <<2024, 3, 1>>,
             <<2023, 3, 1>>, <<2000, 12, 31>>, <<2009, 2, 28>> }

HarnessIdle ==
    /\ pgArr = <<>> /\ pgOut = PgIdle
    /\ ckVessel = <<>> /\ ckISO = FirstDay /\ ckTz = 0 /\ ckOut = CkIdle

-----------------------------------------------------------------------------
(* Construction: the first render of ServiceReportApp, lines 87-179 *)

Constructed ==
    /\ form' = InitialForm
    /\ logoTouched' = FALSE
    /\ photos' = <<>>
    /\ photosIsArray' = TRUE
    /\ storageKey' = computeStorageKey(InitialForm.vessel, BaseISO(InitialForm, today'), tz')
    /\ saveMsg' = NoMsg
    /\ savedList' = <<>>
    /\ selectedSavedKey' = <<>>
    /\ timers' = 0
    /\ readers' = <<>>
    /\ phase' = "constructed"

\* `stores` maps each offset to the stores the page may find
AppInit(stores, offsets) ==
    /\ tz \in offsets
    /\ store \in stores[tz]
    /\ writtenKeys = {}
    /\ today = FirstDay
    /\ nextId = 0
    /\ mounts = 1
    /\ form = InitialForm
    /\ logoTouched = FALSE
    /\ photos = <<>>
    /\ photosIsArray = TRUE
    /\ storageKey = computeStorageKey(InitialForm.vessel, BaseISO(InitialForm, today), tz)
    /\ saveMsg = NoMsg
    /\ savedList = <<>>
    /\ selectedSavedKey = <<>>
    /\ timers = 0
    /\ readers = <<>>
    /\ phase = "constructed"

Init == AppInit(InitStores, {8}) /\ HarnessIdle

-----------------------------------------------------------------------------
(* Rendering *)

\* What the render after a state change leaves in `form`: the logo effect runs
\* when its dependency form.companyId changed (lines 112-116).
AfterRender(prev, next, touched) ==
    IF next.companyId # prev.companyId THEN LogoEffect(next, touched) ELSE next

\* The render calls paginatePhotos(photos) and photos.map (lines 149, 456): both
\* throw when `photos` is no array, and nothing catches it.
RenderPhase(isArray) == IF isArray THEN "mounted" ELSE "crashed"

-----------------------------------------------------------------------------
(* Mount effects, lines 112-116 and 182-200 *)

Mount ==
    /\ phase = "constructed"
    /\ LET items == BuildSavedList(store)
       IN  /\ savedList' = items
           /\ selectedSavedKey' =
                IF selectedSavedKey = <<>> /\ items # <<>> THEN items[1].key
                ELSE selectedSavedKey
    /\ form' = LogoEffect(form, logoTouched)
    /\ phase' = "mounted"
    /\ UNCHANGED <<logoTouched, photos, photosIsArray, storageKey, saveMsg, store,
                   writtenKeys, timers, readers, nextId, today, tz, mounts>>
    /\ UNCHANGED <<pgVars, ckVars>>

\* The user reloads the page: everything but localStorage starts again.
Reload ==
    /\ phase \in {"mounted", "crashed"}
    /\ mounts < MaxMounts
    /\ mounts' = mounts + 1
    /\ UNCHANGED <<store, writtenKeys, nextId, today, tz>>
    /\ Constructed
    /\ UNCHANGED <<pgVars, ckVars>>

\* Midnight UTC passes while the page is open.
Tick ==
    /\ phase = "mounted"
    /\ today # DayAfter(FirstDay, MaxTicks)
    /\ today' = NextDay(today)
    /\ UNCHANGED <<form, logoTouched, photos, photosIsArray, storageKey, saveMsg,
                   savedList, selectedSavedKey, store, writtenKeys, timers, readers,
                   nextId, tz, phase, mounts>>
    /\ UNCHANGED <<pgVars, ckVars>>

-----------------------------------------------------------------------------
(* Form handlers *)

\* handleChange, lines 161-167, followed by the render it causes
HandleChange(name, value) ==
    /\ phase = "mounted"
    /\ LET next == [form EXCEPT ![name] = value]
           touched == logoTouched \/ name = "logoUrl"
       IN  /\ logoTouched' = touched
           /\ form' = AfterRender(form, next, touched)
           /\ storageKey' = StorageKeyMemo(form, next, storageKey, today, tz)
    /\ UNCHANGED <<photos, photosIsArray, saveMsg, savedList, selectedSavedKey,
                   store, writtenKeys, timers, readers, nextId, today, tz, phase, mounts>>
    /\ UNCHANGED <<pgVars, ckVars>>

\* handleRecommendationsInput, lines 338-341
HandleRecommendationsInput(text) ==
    /\ phase = "mounted"
    /\ form' = IF text = form.recommendations THEN form
               ELSE [form EXCEPT !.recommendations = text]
    /\ UNCHANGED <<logoTouched, photos, photosIsArray, storageKey, saveMsg, savedList,
                   selectedSavedKey, store, writtenKeys, timers, readers, nextId,
                   today, tz, phase, mounts>>
    /\ UNCHANGED <<pgVars, ckVars>>

\* the dropdown's onChange, line 353
SelectSavedKey(k) ==
    /\ phase = "mounted"
    /\ \E i \in DOMAIN savedList : savedList[i].key = k
    /\ selectedSavedKey' = k
    /\ UNCHANGED <<form, logoTouched, photos, photosIsArray, storageKey, saveMsg,
                   savedList, store, writtenKeys, timers, readers, nextId, today, tz,
                   phase, mounts>>
    /\ UNCHANGED <<pgVars, ckVars>>

-----------------------------------------------------------------------------
(* Photo handlers *)

RemoveAt(seq, i) == [j \in 1..(Len(seq) - 1) |-> IF j < i THEN seq[j] ELSE seq[j + 1]]

\* onFileChange, lines 123-136: one FileReader per file, started in file order
OnFileChange(files, limit) ==
    /\ phase = "mounted"
    /\ files # <<>>
    /\ nextId + Len(readers) + Len(files) <= limit
    /\ readers' = readers \o files
    /\ UNCHANGED <<form, logoTouched, photos, photosIsArray, storageKey, saveMsg,
                   savedList, selectedSavedKey, store, writtenKeys, timers, nextId,
                   today, tz, phase, mounts>>
    /\ UNCHANGED <<pgVars, ckVars>>

\* reader.onload, lines 128-132: the readers complete in any order
ReaderLoad(i) ==
    /\ phase = "mounted"
    /\ i \in DOMAIN readers
    /\ photos' = Append(photos, [id |-> nextId + 1, src |-> readers[i], caption |-> ""])
    /\ nextId' = nextId + 1
    /\ readers' = RemoveAt(readers, i)
    /\ UNCHANGED <<form, logoTouched, photosIsArray, storageKey, saveMsg, savedList,
                   selectedSavedKey, store, writtenKeys, timers, today, tz, phase, mounts>>
    /\ UNCHANGED <<pgVars, ckVars>>

\* the move that copies the neighbour over arr[idx] instead of swapping
MovedPhotos_CopiesOver(prev, idx, dir) ==
    LET t == idx + dir
    IN  IF t < 0 \/ t >= Len(prev) THEN prev
        ELSE [j \in DOMAIN prev |-> IF j = idx + 1 THEN prev[t + 1] ELSE prev[j]]

\* movePhoto, lines 138-145; idx is zero-based
MovedPhotos(prev, idx, dir) ==
    LET t == idx + dir
    IN  IF t < 0 \/ t >= Len(prev) THEN prev
        ELSE [j \in DOMAIN prev |->
                IF j = idx + 1 THEN prev[t + 1]
                ELSE IF j = t + 1 THEN prev[idx + 1]
                ELSE prev[j]]

MovePhoto(idx, dir) ==
    /\ phase = "mounted"
    /\ idx \in 0..(Len(photos) - 1)
    /\ photos' = MovedPhotos(photos, idx, dir)
    /\ UNCHANGED <<form, logoTouched, photosIsArray, storageKey, saveMsg, savedList,
                   selectedSavedKey, store, writtenKeys, timers, readers, nextId,
                   today, tz, phase, mounts>>
    /\ UNCHANGED <<pgVars, ckVars>>

\* removePhoto, line 147
RemovePhoto(idx) ==
    /\ phase = "mounted"
    /\ idx \in 0..(Len(photos) - 1)
    /\ photos' = RemoveAt(photos, idx + 1)
    /\ UNCHANGED <<form, logoTouched, photosIsArray, storageKey, saveMsg, savedList,
                   selectedSavedKey, store, writtenKeys, timers, readers, nextId,
                   today, tz, phase, mounts>>
    /\ UNCHANGED <<pgVars, ckVars>>

\* the caption input's onChange, line 468
CaptionChange(i, value) ==
    /\ phase = "mounted"
    /\ i \in 0..(Len(photos) - 1)
    /\ photos' = [j \in DOMAIN photos |->
                    IF j = i + 1 THEN [photos[j] EXCEPT !.caption = value] ELSE photos[j]]
    /\ UNCHANGED <<form, logoTouched, photosIsArray, storageKey, saveMsg, savedList,
                   selectedSavedKey, store, writtenKeys, timers, readers, nextId,
                   today, tz, phase, mounts>>
    /\ UNCHANGED <<pgVars, ckVars>>

-----------------------------------------------------------------------------
(* saveToStorage, lines 202-215 *)

\* localStorage.setItem throws (QuotaExceededError) when the value does not fit
QuotaExceeded(s, k, raw) == StoreSize(SetItem(s, k, raw)) > Quota

\* the refresh without the filter: the new item in front of the whole old list
RefreshedList_KeepsOld(prev, k, preview) ==
    <<ListItem(k, preview)>> \o prev

\* line 210: [{ key, label, preview }, ...prev.filter((i) => i.key !== storageKey)]
RefreshedList(prev, k, preview) ==
    <<ListItem(k, preview)>> \o SelectSeq(prev, LAMBDA it : it.key # k)

\* line 209: photos[0]?.src
FirstPhotoSrc(ps) == IF ps # <<>> THEN ps[1].src ELSE Undefined

\* the catch reporting success, as if line 206 had run before setItem threw
SaveCatch_ReportsSaved ==
    /\ saveMsg' = SavedMsg(storageKey)
    /\ UNCHANGED <<store, writtenKeys, selectedSavedKey, savedList, timers>>

\* lines 212-214: setItem threw before any setter of the try block ran
SaveCatch ==
    /\ saveMsg' = SaveFailedMsg
    /\ UNCHANGED <<store, writtenKeys, selectedSavedKey, savedList, timers>>

SaveToStorage ==
    /\ phase = "mounted"
    /\ LET raw == JSONStringify(form, photos)
       IN  IF QuotaExceeded(store, storageKey, raw)
           THEN SaveCatch
           ELSE /\ timers < MaxTimers
                /\ store' = SetItem(store, storageKey, raw)
                /\ writtenKeys' = writtenKeys \cup {storageKey}
                /\ saveMsg' = SavedMsg(storageKey)
                /\ selectedSavedKey' = storageKey
                /\ savedList' = RefreshedList(savedList, storageKey, FirstPhotoSrc(photos))
                /\ timers' = timers + 1
    /\ UNCHANGED <<form, logoTouched, photos, photosIsArray, storageKey, readers,
                   nextId, today, tz, phase, mounts>>
    /\ UNCHANGED <<pgVars, ckVars>>

-----------------------------------------------------------------------------
(* loadFromStorage, lines 217-233; every caller passes no key *)

\* line 219: key || selectedSavedKey || storageKey
LoadKey == IF selectedSavedKey # <<>> THEN selectedSavedKey ELSE storageKey

\* data.form is truthy
HasForm(raw) == raw.kind = "object" /\ raw.formKind = "object"
\* data.photos is truthy
HasPhotos(raw) == raw.kind = "object" /\ raw.photosKind # "absent"

LoadFromStorage ==
    /\ phase = "mounted"
    /\ LET k == LoadKey
           raw == GetItem(store, k)
       IN  IF IsFalsyRaw(raw)
           THEN \* lines 221-224
                /\ saveMsg' = NoSavedDataMsg
                /\ UNCHANGED <<form, photos, photosIsArray, storageKey, timers, phase>>
           ELSE IF ParseThrows(raw) \/ raw.kind = "null"
           THEN \* JSON.parse threw, or data.form of null threw: the catch of line 230
                /\ saveMsg' = LoadFailedMsg
                /\ UNCHANGED <<form, photos, photosIsArray, storageKey, timers, phase>>
           ELSE LET next == IF HasForm(raw) THEN MergeLoaded(form, raw.form) ELSE form
                    isArray == IF HasPhotos(raw) THEN raw.photosKind = "array"
                               ELSE photosIsArray
                IN  /\ timers < MaxTimers
                    /\ photosIsArray' = isArray
                    /\ photos' = IF HasPhotos(raw)
                                 THEN (IF isArray THEN raw.photos ELSE <<>>)
                                 ELSE photos
                    /\ saveMsg' = LoadedMsg(k)
                    /\ timers' = timers + 1
                    /\ phase' = RenderPhase(isArray)
                    /\ form' = IF isArray THEN AfterRender(form, next, logoTouched) ELSE next
                    /\ storageKey' = IF isArray
                                     THEN StorageKeyMemo(form, next, storageKey, today, tz)
                                     ELSE storageKey
    /\ UNCHANGED <<logoTouched, savedList, selectedSavedKey, store, writtenKeys, readers,
                   nextId, today, tz, mounts>>
    /\ UNCHANGED <<pgVars, ckVars>>

\* a setTimeout(() => setSaveMsg(''), 3000) of line 211 or 229 expires
TimerFires ==
    /\ phase = "mounted"
    /\ timers > 0
    /\ timers' = timers - 1
    /\ saveMsg' = NoMsg
    /\ UNCHANGED <<form, logoTouched, photos, photosIsArray, storageKey, savedList,
                   selectedSavedKey, store, writtenKeys, readers, nextId, today, tz,
                   phase, mounts>>
    /\ UNCHANGED <<pgVars, ckVars>>

-----------------------------------------------------------------------------
(* The application: loading and saving reports *)

CompanyChanges == { <<"companyId", c>> : c \in CompanyIds }
LogoChanges == { <<"logoUrl", CustomLogoUrl>> }
VesselChanges == { <<"vessel", v>> : v \in VesselInputs }
DateChanges == { <<"jobDateStart", d>> : d \in DateInputs } \cup
               { <<"jobDateEnd", d>> : d \in DateInputs }

Next ==
    \/ Mount
    \/ Reload
    \/ \E nv \in CompanyChanges \cup LogoChanges \cup VesselChanges :
         HandleChange(nv[1], nv[2])
    \/ \E i \in DOMAIN savedList : SelectSavedKey(savedList[i].key)
    \/ \E f \in Files : OnFileChange(<<f>>, MaxPhotos)
    \/ \E i \in DOMAIN readers : ReaderLoad(i)
    \/ SaveToStorage
    \/ LoadFromStorage
    \/ TimerFires

Spec == Init /\ [][Next]_vars

-----------------------------------------------------------------------------
(* paginatePhotos applied to every list of PgInputs *)

PgApply ==
    /\ ~pgOut.done
    /\ pgOut' = [done |-> TRUE, firstTwo |-> paginatePhotos(pgArr).firstTwo,
                 groups |-> paginatePhotos(pgArr).groups]
    /\ UNCHANGED <<pgArr, ckVars, appVars>>

PgNext ==
    /\ pgOut.done
    /\ pgArr' \in PgInputs
    /\ pgOut' = PgIdle
    /\ UNCHANGED <<ckVars, appVars>>

InitPaginate ==
    /\ AppInit(OnlyEmptyStore, {0})
    /\ pgArr \in PgInputs /\ pgOut = PgIdle
    /\ ckVessel = <<>> /\ ckISO = FirstDay /\ ckTz = 0 /\ ckOut = CkIdle

NextPaginate == PgApply \/ PgNext

SpecPaginate == InitPaginate /\ [][NextPaginate]_vars

-----------------------------------------------------------------------------
(* computeStorageKey applied to every input of CkVessels, CkDates, TzOffsets *)

CkApply ==
    /\ ~ckOut.done
    /\ ckOut' = [done |-> TRUE, key |-> computeStorageKey(ckVessel, ckISO, ckTz)]
    /\ UNCHANGED <<ckVessel, ckISO, ckTz, pgVars, appVars>>

CkNext ==
    /\ ckOut.done
    /\ ckVessel' \in CkVessels
    /\ ckISO' \in CkDates
    /\ ckTz' \in TzOffsets
    /\ ckOut' = CkIdle
    /\ UNCHANGED <<pgVars, appVars>>

InitKey ==
    /\ AppInit(OnlyEmptyStore, {0})
    /\ pgArr = <<>> /\ pgOut = PgIdle
    /\ ckVessel \in CkVessels /\ ckISO \in CkDates /\ ckTz \in TzOffsets
    /\ ckOut = CkIdle

NextKey == CkApply \/ CkNext

SpecKey == InitKey /\ [][NextKey]_vars

-----------------------------------------------------------------------------
(* The application: saving under a quota, and the list built on mount *)

InitSave == AppInit(MixedStores, {8}) /\ HarnessIdle

NextSave ==
    \/ Mount
    \/ Reload
    \/ \E nv \in VesselChanges : HandleChange(nv[1], nv[2])
    \/ \E f \in Files : OnFileChange(<<f>>, MaxPhotos)
    \/ \E i \in DOMAIN readers : ReaderLoad(i)
    \/ \E idx \in 0..(MaxPhotos - 1) : RemovePhoto(idx)
    \/ \E i \in DOMAIN savedList : SelectSavedKey(savedList[i].key)
    \/ SaveToStorage
    \/ TimerFires

SpecSave == InitSave /\ [][NextSave]_vars

-----------------------------------------------------------------------------
(* The application: the storage key while vessel, dates and the clock change *)

InitDates == AppInit(OnlyEmptyStore, TzOffsets) /\ HarnessIdle

NextDates ==
    \/ Mount
    \/ Reload
    \/ Tick
    \/ \E nv \in VesselChanges \cup DateChanges : HandleChange(nv[1], nv[2])

SpecDates == InitDates /\ [][NextDates]_vars

-----------------------------------------------------------------------------
(* Properties of paginatePhotos, checked under SpecPaginate *)

Min(a, b) == IF a < b THEN a ELSE b
CeilDiv(a, b) == (a + b - 1) \div b

RECURSIVE Flatten(_)
Flatten(seqs) == IF seqs = <<>> THEN <<>> ELSE Head(seqs) \o Flatten(Tail(seqs))

\* C2: for a list of n photos, firstTwo is its first min(2, n) photos in order;
\* there are ceil(max(0, n - 2) / 4) groups, each of 1 to 4 photos and all but
\* the last of exactly 4; group g holds the photos at (zero-based) index
\* 2 + 4g, 2 + 4g + 1, ... in order.
C2_PaginateShape ==
    pgOut.done =>
        LET n == Len(pgArr)
            rest == IF n > 2 THEN n - 2 ELSE 0
        IN  /\ pgOut.firstTwo = [i \in 1..Min(2, n) |-> pgArr[i]]
            /\ Len(pgOut.groups) = CeilDiv(rest, 4)
            /\ \A g \in DOMAIN pgOut.groups :
                 /\ Len(pgOut.groups[g]) \in 1..4
                 /\ g < Len(pgOut.groups) => Len(pgOut.groups[g]) = 4
                 /\ \A j \in DOMAIN pgOut.groups[g] :
                      /\ 2 + 4 * (g - 1) + j <= n
                      /\ pgOut.groups[g][j] = pgArr[2 + 4 * (g - 1) + j]

\* ten photos: two on the first page and two full groups
C2_Witness ==
    /\ pgOut.done /\ Len(pgArr) = 10
    /\ Len(pgOut.firstTwo) = 2 /\ Len(pgOut.groups) = 2
    /\ Len(pgOut.groups[1]) = 4 /\ Len(pgOut.groups[2]) = 4

\* C3: firstTwo followed by all groups, flattened in order, is the list given.
C3_PaginateRoundTrip ==
    pgOut.done => pgOut.firstTwo \o Flatten(pgOut.groups) = pgArr

\* eleven photos, the last group partial
C3_Witness ==
    /\ pgOut.done /\ Len(pgArr) = 11 /\ Len(pgOut.groups) = 3
    /\ Len(pgOut.groups[3]) = 1
    /\ pgOut.firstTwo \o Flatten(pgOut.groups) = pgArr

-----------------------------------------------------------------------------
(* Properties of computeStorageKey, checked under SpecKey *)

\* the part of a computed key before the date digits
VesselPartOf(key, iso, offset) == SubSeq(key, 1, Len(key) - Len(DatePart(iso, offset)))

\* C4: the vessel part of the key is the name without the characters outside
\* [A-Za-z0-9], uppercased, and is "VESSEL" whenever that is empty.
C4_VesselPart ==
    ckOut.done =>
        LET kept == SelectSeq(ckVessel, IsAlnum)
            upper == [i \in DOMAIN kept |-> ToUpperChar(kept[i])]
        IN  VesselPartOf(ckOut.key, ckISO, ckTz) = IF upper = <<>> THEN VESSEL ELSE upper

\* two digits of n, zero-padded
TwoDigits(n) == <<Digits[((n \div 10) % 10) + 1], Digits[(n % 10) + 1]>>

\* C5: the key is the vessel part followed by DDMMYY of the calendar date given,
\* at every time-zone offset.
C5_DateSuffix ==
    ckOut.done =>
        ckOut.key = VesselKey(ckVessel) \o TwoDigits(ckISO[3]) \o TwoDigits(ckISO[2])
                      \o TwoDigits(ckISO[1])

-----------------------------------------------------------------------------
(* Properties of saving and loading *)

\* C1: a load of a key that saveToStorage wrote leaves the form equal to the
\* form saved, in every field, and the photo list equal to the photos saved.
C1_ReadAfterWrite ==
    [][(LoadFromStorage /\ LoadKey \in writtenKeys) =>
          /\ form' = store[LoadKey].form
          /\ photosIsArray'
          /\ photos' = store[LoadKey].photos]_vars

\* C6: the active key is the key of the vessel and of the job end date, else
\* the job start date, else the current date.
C6_ActiveKey ==
    phase # "crashed" =>
        storageKey = computeStorageKey(form.vessel, BaseISO(form, today), tz)

\* C7: after a load of a record with a form, every field the stored form lacks
\* has the value it had before the load and every field it holds has the
\* stored value.
C7_MergeKeepsAbsent ==
    [][(LoadFromStorage /\ HasForm(GetItem(store, LoadKey))) =>
          LET stored == GetItem(store, LoadKey).form
          IN  \A f \in FormFields :
                form'[f] = IF f \in DOMAIN stored THEN stored[f] ELSE form[f]]_vars

\* C8: a save the store rejects shows the save-failure message and changes
\* neither the form, the photos, the store, the saved-reports list, the
\* selected key nor the pending timers.
C8_QuotaFailure ==
    [][(SaveToStorage /\ QuotaExceeded(store, storageKey, JSONStringify(form, photos))) =>
          /\ saveMsg' = SaveFailedMsg
          /\ UNCHANGED <<form, photos, photosIsArray, store, savedList,
                         selectedSavedKey, timers>>]_vars

\* a rejected save of a report with a photo, the store still within its quota
C8_Witness ==
    /\ saveMsg = SaveFailedMsg /\ photos # <<>>
    /\ DOMAIN store # {} /\ StoreSize(store) <= Quota
    /\ storageKey \notin DOMAIN store

\* a stored value that is no valid record
InvalidRecord(raw) ==
    \/ raw.kind \in {"empty", "text", "null", "number"}
    \/ raw.kind = "object" /\ raw.photosKind = "other"

\* C9: a load of a key that is missing or holds no valid record leaves form and
\* photos as they were, reports "No saved data for this key", and the
\* component still renders.
C9_CorruptIsAbsent ==
    [][(LoadFromStorage /\ InvalidRecord(GetItem(store, LoadKey))) =>
          /\ form' = form /\ photos' = photos /\ photosIsArray' = photosIsArray
          /\ saveMsg' = NoSavedDataMsg
          /\ phase' = "mounted"]_vars

ListedKeys(list) == { list[i].key : i \in DOMAIN list }

\* C10: the list built on mount holds no key whose value is not JSON, and
\* holds every key whose value parses as a record, whatever else is stored.
C10_MountList ==
    [][(phase = "constructed" /\ phase' = "mounted") =>
          /\ \A k \in ListedKeys(savedList') :
               k \in DOMAIN store /\ store[k].kind \in {"null", "number", "object"}
          /\ \A k \in DOMAIN store :
               store[k].kind = "object" => k \in ListedKeys(savedList')]_vars

\* just mounted over a store with a value that is no JSON and a record: the
\* record is listed, the other is not
C10_Witness ==
    /\ phase = "mounted" /\ writtenKeys = {}
    /\ \E k1, k2 \in DOMAIN store :
         /\ store[k1].kind = "text" /\ store[k2].kind = "object"
         /\ k2 \in ListedKeys(savedList) /\ k1 \notin ListedKeys(savedList)

-----------------------------------------------------------------------------
(* Properties of the saved-reports list, checked under SpecSave *)

\* keys descending from the head of the list to its end
Descending(list) ==
    \A i \in 1..(Len(list) - 1) : StrLess(list[i + 1].key, list[i].key)

\* C11: in every state the saved-reports list is in descending lexicographic
\* order of key.
C11_ListDescending == Descending(savedList)

\* a save that localStorage accepts
SaveSucceeds ==
    SaveToStorage /\ ~QuotaExceeded(store, storageKey, JSONStringify(form, photos))

\* C12: after a successful save under K the list has exactly one entry with
\* key K, its preview is the image of the first photo of the record written
\* (none when the record has no photo), and the store holds under K the record
\* just written.
C12_SaveRefreshesList ==
    [][SaveSucceeds =>
          LET K == storageKey
              written == JSONStringify(form, photos)
              entries == { i \in DOMAIN savedList' : savedList'[i].key = K }
          IN  /\ Cardinality(entries) = 1
              /\ \A i \in entries :
                   savedList'[i].preview =
                     IF written.photos = <<>> THEN Undefined ELSE written.photos[1].src
              /\ K \in DOMAIN store' /\ store'[K] = written]_vars

\* a report with a photo was just saved under a key listed beside another
C12_Witness ==
    /\ saveMsg = SavedMsg(storageKey) /\ storageKey \in writtenKeys
    /\ photos # <<>> /\ Len(savedList) >= 2
    /\ savedList[1].key = storageKey /\ savedList[1].preview = photos[1].src

-----------------------------------------------------------------------------
(* Properties of the logo, checked under Spec *)

\* C13: once the effects have run, a logo URL that was never edited by hand is
\* the default logo of the selected company.
C13_LogoTracksCompany ==
    (phase = "mounted" /\ ~logoTouched) =>
        form.logoUrl = CompanyLogoUrl(form.companyId)

\* C14: a change of company sets an unedited logo URL to the new company's
\* default and leaves an edited logo URL as it is.
C14_CompanyChangeRule ==
    [][\A c \in CompanyIds :
          (c # form.companyId /\ HandleChange("companyId", c)) =>
              form'.logoUrl = IF logoTouched THEN form.logoUrl
                              ELSE CompanyLogoUrl(c)]_vars

\* the logo typed by hand beside the other company, nothing loaded or saved
C14_Witness ==
    /\ phase = "mounted" /\ logoTouched /\ mounts = 1 /\ writtenKeys = {}
    /\ saveMsg = NoMsg
    /\ form.companyId # InitialForm.companyId
    /\ form.logoUrl = CustomLogoUrl

-----------------------------------------------------------------------------
(* The application: uploading and arranging photos *)

\* The files the user selects are named by the order they are selected in,
\* over the run: "f1" is the first file uploaded, "f2" the second.
FileName(n) == "f" \o ToString(n)
FileNo(src) == CHOOSE n \in 1..(MaxUploads + 1) : FileName(n) = src

\* e.target.files of an upload of n files after k files were uploaded
FileList(k, n) == [i \in 1..n |-> FileName(k + i)]

InitPhotos == AppInit(OnlyEmptyStore, {0}) /\ HarnessIdle

\* a selection of one or more files, once the readers of the last one are done
Upload ==
    /\ readers = <<>>
    /\ \E n \in 1..MaxUploads : OnFileChange(FileList(nextId, n), MaxUploads)

NextUpload ==
    \/ Mount
    \/ Upload
    \/ \E i \in DOMAIN readers : ReaderLoad(i)
    \/ \E i \in 0..(MaxUploads - 1), c \in Captions : CaptionChange(i, c)

SpecUpload == InitPhotos /\ [][NextUpload]_vars

NextPhotos ==
    \/ NextUpload
    \/ \E idx \in 0..(MaxUploads - 1), dir \in {-1, 1} : MovePhoto(idx, dir)
    \/ \E idx \in 0..(MaxUploads - 1) : RemovePhoto(idx)

SpecPhotos == InitPhotos /\ [][NextPhotos]_vars

-----------------------------------------------------------------------------
(* Properties of the photo list *)

\* C15: the photos of the files uploaded stand in the list in the order the
\* files were uploaded, each once, whatever order the readers complete in.
\* Checked under SpecUpload, where nothing but reader.onload adds or moves a
\* photo.
C15_UploadOrder ==
    \A i, j \in DOMAIN photos :
        i < j => FileNo(photos[i].src) < FileNo(photos[j].src)

\* the photo at position j of the list after the step is one that was in the
\* list before it, with the same image
Kept(j) ==
    \E i \in DOMAIN photos :
        photos[i].id = photos'[j].id /\ photos[i].src = photos'[j].src

\* ... or was added by this step from a file being read
Added(j) ==
    /\ photos'[j].id \notin { photos[i].id : i \in DOMAIN photos }
    /\ \E r \in DOMAIN readers : readers[r] = photos'[j].src

\* C16: movePhoto(idx, dir) swaps the photos at idx and idx + dir, whole, and
\* changes no other position, or nothing when idx + dir is outside the list;
\* removePhoto(idx) removes the photo at idx and keeps the others in order;
\* every step leaves in the list only photos that were in it or were just
\* added, each once and with its image.
C16_MoveRemoveFrame ==
    [][/\ \A idx \in 0..(MaxUploads - 1), dir \in {-1, 1} :
            MovePhoto(idx, dir) =>
                LET t == idx + dir
                IN  IF t < 0 \/ t >= Len(photos) THEN photos' = photos
                    ELSE /\ Len(photos') = Len(photos)
                         /\ photos'[idx + 1] = photos[t + 1]
                         /\ photos'[t + 1] = photos[idx + 1]
                         /\ \A j \in DOMAIN photos \ {idx + 1, t + 1} :
                              photos'[j] = photos[j]
       /\ \A idx \in 0..(MaxUploads - 1) :
            RemovePhoto(idx) =>
                /\ Len(photos') = Len(photos) - 1
                /\ \A j \in 1..idx : photos'[j] = photos[j]
                /\ \A j \in (idx + 1)..Len(photos') : photos'[j] = photos[j + 1]
       /\ \A j \in DOMAIN photos' : Kept(j) \/ Added(j)
       /\ \A i, j \in DOMAIN photos' :
            photos'[i].id = photos'[j].id => i = j]_vars

\* three photos, a captioned one moved in front of one added before it, and
\* one of the photos added removed
C16_Witness ==
    /\ Len(photos) = 3 /\ nextId = 4 /\ readers = <<>>
    /\ \E i, j \in DOMAIN photos :
         i < j /\ photos[i].id > photos[j].id /\ photos[i].caption = "c"

-----------------------------------------------------------------------------
(* The application: saving and loading across days *)

InitCoherence == AppInit(OnlyEmptyStore, {0}) /\ HarnessIdle

NextCoherence ==
    \/ Mount
    \/ Reload
    \/ Tick
    \/ \E nv \in VesselChanges : HandleChange(nv[1], nv[2])
    \/ \E text \in TextInputs : HandleRecommendationsInput(text)
    \/ \E i \in DOMAIN savedList : SelectSavedKey(savedList[i].key)
    \/ SaveToStorage
    \/ LoadFromStorage
    \/ TimerFires

SpecCoherence == InitCoherence /\ [][NextCoherence]_vars

\* C17: after a load of a record that saveToStorage wrote under K the active
\* key is K, so that the next save overwrites that record.
C17_KeyOfLoadedRecord ==
    [][(LoadFromStorage /\ LoadKey \in writtenKeys) => storageKey' = LoadKey]_vars

-----------------------------------------------------------------------------
(* Properties of the status message *)

\* the messages of the operations that start no timer (lines 213, 222, 231)
UntimedMsgs == {SaveFailedMsg, NoSavedDataMsg, LoadFailedMsg}

\* C18: a clear timer erases only the message of the operation that started
\* it: a message of an operation that starts no timer ("Save failed", "No saved
\* data", "Load failed") is never erased by the timer of an earlier operation.
C18_TimerClearsOwnMessage ==
    [][(TimerFires /\ saveMsg \in UntimedMsgs) => saveMsg' = saveMsg]_vars

====
